---- MODULE Spec2Model ----
(***************************************************************************)
(* Model of MMQueueSimulator (simulation-hw3.ipynb): the M/M/k queue       *)
(* simulation run_simulation, the process-wide numpy random generator it   *)
(* seeds and draws from, and the scenario driver run_mm1_mm2_simulations.  *)
(*                                                                         *)
(* Numbers.  Python floats are modelled as integers counting quanta of     *)
(* 1/Unit, kept to MantissaBits significant bits: every float operation    *)
(* computes the exact value and rounds it to the nearest representable     *)
(* number, ties to even, as IEEE-754 binary64 does with 53 bits.           *)
(*                                                                         *)
(* Random generator.  The generator's state is a position on a tape: the  *)
(* sequence of standard-exponential variates that follow seed(42).  The   *)
(* tape is fixed but unknown; its entries are chosen when first read and   *)
(* stay the same on every later read.                                      *)
(***************************************************************************)
EXTENDS Integers, Sequences, FiniteSets, TLC

\* ------------------------------------------------------------------ bounds
MaxCustomers == 3
MaxServers == 3
MaxStd == 1
MantissaBits == 2
MaxRuns == 3
SeqCustomers == 1
ParCustomers == 1

\* quanta per 1.0
Unit == 2

\* ------------------------------------------------------------- float model
RECURSIVE UlpOf(_, _)
UlpOf(x, u) == IF x < (2 ^ MantissaBits) * u THEN u ELSE UlpOf(x, 2 * u)

\* nearest representable value of the exact non-negative value x, ties to even
Rnd(x) ==
    LET u == UlpOf(x, 1)
        lo == (x \div u) * u
        r == x - lo
    IN  IF 2 * r < u THEN lo
        ELSE IF 2 * r > u THEN lo + u
        ELSE IF (lo \div u) % 2 = 0 THEN lo ELSE lo + u

RndS(x) == IF x < 0 THEN 0 - Rnd(0 - x) ELSE Rnd(x)

\* n / d (d > 0, n >= 0) rounded to the nearest whole quantum, ties to even
GridRound(n, d) ==
    LET q == n \div d
        r == n % d
    IN  IF 2 * r < d THEN q
        ELSE IF 2 * r > d THEN q + 1
        ELSE IF q % 2 = 0 THEN q ELSE q + 1

Abs(x) == IF x < 0 THEN 0 - x ELSE x
Sign(x) == IF x < 0 THEN 0 - 1 ELSE 1

FAdd(a, b) == RndS(a + b)
FSub(a, b) == RndS(a - b)
FMul(a, b) == Sign(a) * Sign(b) * Rnd(GridRound(Abs(a) * Abs(b), Unit))
\* b # 0
FDiv(a, b) == Sign(a) * Sign(b) * Rnd(GridRound(Abs(a) * Unit, Abs(b)))
IntToFloat(k) == RndS(k * Unit)

\* ------------------------------------------------------------ numpy helpers
NoCumsum(xs) == xs

\* np.cumsum: running float sums, left to right
RECURSIVE Cumsum(_)
Cumsum(xs) ==
    IF Len(xs) <= 1 THEN xs
    ELSE LET front == Cumsum(SubSeq(xs, 1, Len(xs) - 1))
         IN  Append(front, FAdd(front[Len(front)], xs[Len(xs)]))

\* np.add.reduce over a short list: left to right
RECURSIVE FSum(_)
FSum(xs) ==
    IF Len(xs) = 1 THEN xs[1]
    ELSE FAdd(FSum(SubSeq(xs, 1, Len(xs) - 1)), xs[Len(xs)])

\* np.mean: <<>> is nan (mean of an empty list), <<m>> the float mean m
Mean(xs) ==
    IF Len(xs) = 0 THEN <<>>
    ELSE <<FDiv(FSum(xs), IntToFloat(Len(xs)))>>

IntsToFloats(ks) == [j \in 1..Len(ks) |-> IntToFloat(ks[j])]

\* np.argmin over a non-empty list: 0-based index of the first minimum
RECURSIVE ArgminScan(_, _, _)
ArgminScan(xs, j, best) ==
    IF j > Len(xs) THEN best - 1
    ELSE IF xs[j] < xs[best] THEN ArgminScan(xs, j + 1, j)
    ELSE ArgminScan(xs, j + 1, best)

RECURSIVE ArgminLastScan(_, _, _)
ArgminLastScan(xs, j, best) ==
    IF j > Len(xs) THEN best - 1
    ELSE IF xs[j] <= xs[best] THEN ArgminLastScan(xs, j + 1, j)
    ELSE ArgminLastScan(xs, j + 1, best)

ArgminLast(xs) == ArgminLastScan(xs, 2, 1)

ArgFirst(xs) == 0

Argmin(xs) == ArgminScan(xs, 2, 1)

\* np.random.seed(42): the generator restarts at the head of the tape
SeedKeep(pos) == pos

SeedRng(pos) == 0

\* np.random.exponential(scale, n) read at position pos of tape t
Exponential(scale, n, pos, t) == [j \in 1..n |-> FMul(scale, t[pos + j])]


\* ------------------------------------------------------------------- state
\* sim[r]: the simulator object and the locals of its run_simulation call
\* rng_pos, tape: the process-wide generator (np.random)
\* results: the list run_mm1_mm2_simulations collects
VARIABLES sim, rng_pos, tape, results

vars == <<sim, rng_pos, tape, results>>

RunIds == {1, 2}
\* -1.0, 0.0, 0.5, 2.0
Rates == {0 - Unit, 0, Unit \div 2, 2 * Unit}
ServerCounts == (0 - 1)..MaxServers
CustomerCounts == (0 - 1)..MaxCustomers
\* standard-exponential variates 0.0, 1.0, ...
Draws == {d * Unit : d \in 0..MaxStd}

\* MMQueueSimulator.__init__
NewSimulator(arrival_rate, service_rate, servers, total_customers) ==
    [ pc |-> "seed",
      arrival_rate |-> arrival_rate,
      service_rate |-> service_rate,
      servers |-> servers,
      total_customers |-> total_customers,
      interarrival_times |-> <<>>,
      service_times |-> <<>>,
      arrival_times |-> <<>>,
      departure_times |-> <<>>,
      queue_length |-> 0,
      queue_lengths |-> <<>>,
      response_times |-> <<>>,
      i |-> 0,
      next_free_server |-> 0,
      next_free_time |-> 0,
      start_service_time |-> 0,
      departure_time |-> 0,
      records |-> <<>>,
      result |-> <<>>,
      error |-> "" ]

\* a slot in which no simulator has been constructed
NoSimulator == [NewSimulator(Unit, Unit, 1, 1) EXCEPT !.pc = "idle"]

Config(s) == <<s.arrival_rate, s.service_rate, s.servers, s.total_customers>>

\* the exception np.random.exponential(1 / rate, n) raises, "" if none
DrawError(rate, n) ==
    IF rate = 0 THEN "ZeroDivisionError"
    ELSE IF rate < 0 \/ n < 0 THEN "ValueError"
    ELSE ""

Raise(s, e) == [s EXCEPT !.pc = "failed", !.error = e]

PoolOneShort(servers) == [j \in 1..(servers - 1) |-> 0]

\* line 52: [0] * servers
InitialPool(servers) == [j \in 1..servers |-> 0]

\* lines 49-55: arrival times and the fresh per-run state
BeginLoopStep(s) ==
    [s EXCEPT !.pc = "loop",
              !.arrival_times = Cumsum(s.interarrival_times),
              !.departure_times = InitialPool(s.servers),
              !.queue_length = 0,
              !.queue_lengths = <<>>,
              !.response_times = <<>>,
              !.i = 0]

NeverWaits(arrival, next_free_time) == FALSE

Waits(arrival, next_free_time) == arrival < next_free_time

StartAtArrival(arrival, next_free_time) == arrival

StartServiceTime(arrival, next_free_time) ==
    IF Waits(arrival, next_free_time) THEN next_free_time ELSE arrival

DepartureMinusService(start_service_time, service) == FSub(start_service_time, service)

DepartureTime(start_service_time, service) == FAdd(start_service_time, service)

ResponseTime(departure_time, arrival) == FSub(departure_time, arrival)

\* lines 84-85: the counter after the customer's departure is recorded
AlwaysDecrement(queued, waited) == queued - 1

KeepQueued(queued, waited) == queued

QueueAfterService(queued, waited) == IF waited THEN queued - 1 ELSE queued

ResetPool(departure_times, next_free_server, departure_time) ==
    [j \in 1..Len(departure_times) |-> departure_time]

KeepPool(departure_times, next_free_server, departure_time) == departure_times

\* line 76: departure_times[next_free_server] = departure_time
UpdatePool(departure_times, next_free_server, departure_time) ==
    [departure_times EXCEPT ![next_free_server + 1] = departure_time]

RecordDropIdle(series, value) == IF value = 0 THEN series ELSE Append(series, value)

RecordQueueLength(queue_lengths, queue_length) == Append(queue_lengths, queue_length)

RecordResponseTime(response_times, response_time) == Append(response_times, response_time)

\* lines 58-85: one iteration of the customer loop
ProcessCustomerStep(s) ==
    IF Len(s.departure_times) = 0 THEN Raise(s, "ValueError")
    ELSE
    LET arrival == s.arrival_times[s.i + 1]
        service == s.service_times[s.i + 1]
        next_free_server == Argmin(s.departure_times)
        next_free_time == s.departure_times[next_free_server + 1]
        waited == Waits(arrival, next_free_time)
        queued == IF waited THEN s.queue_length + 1 ELSE s.queue_length
        start_service_time == StartServiceTime(arrival, next_free_time)
        departure_time == DepartureTime(start_service_time, service)
        response_time == ResponseTime(departure_time, arrival)
    IN  [s EXCEPT
          !.i = s.i + 1,
          !.next_free_server = next_free_server,
          !.next_free_time = next_free_time,
          !.start_service_time = start_service_time,
          !.departure_time = departure_time,
          !.departure_times = UpdatePool(s.departure_times, next_free_server, departure_time),
          !.queue_lengths = RecordQueueLength(s.queue_lengths, queued),
          !.response_times = RecordResponseTime(s.response_times, response_time),
          !.queue_length = QueueAfterService(queued, waited),
          !.records = Append(s.records,
              [ arrivalTime |-> arrival,
                serviceDuration |-> service,
                pool |-> s.departure_times,
                assignedServer |-> next_free_server,
                serviceStartTime |-> start_service_time,
                departureTime |-> departure_time,
                responseTime |-> response_time,
                queueLengthAtArrival |-> queued ]) ]

\* line 91: servers * service_rate, and the utilization (capacity # 0)
Capacity(servers, service_rate) == FMul(IntToFloat(servers), service_rate)

UtilizationOfOneServer(arrival_rate, servers, service_rate) == FDiv(arrival_rate, service_rate)

ServerUtilization(arrival_rate, servers, service_rate) ==
    FDiv(arrival_rate, Capacity(servers, service_rate))

ReturnRescaled(s) ==
    [s EXCEPT
       !.pc = "done",
       !.arrival_rate = ServerUtilization(s.arrival_rate, s.servers, s.service_rate),
       !.result = << [ average_queue_length |-> Mean(IntsToFloats(s.queue_lengths)),
                       average_response_time |-> Mean(s.response_times),
                       server_utilization |-> ServerUtilization(s.arrival_rate, s.servers, s.service_rate),
                       queue_lengths |-> s.queue_lengths ] >> ]

\* lines 88-93: the metrics dictionary
ReturnStep(s) ==
    LET capacity == Capacity(s.servers, s.service_rate)
    IN  IF capacity = 0 THEN Raise(s, "ZeroDivisionError")
        ELSE [s EXCEPT
               !.pc = "done",
               !.result = << [ average_queue_length |-> Mean(IntsToFloats(s.queue_lengths)),
                               average_response_time |-> Mean(s.response_times),
                               server_utilization |-> ServerUtilization(s.arrival_rate, s.servers, s.service_rate),
                               queue_lengths |-> s.queue_lengths ] >> ]

\* ------------------------------------------------------------------ actions
\* the tape as it is after n more entries have been read from position pos
Reveal(t, pos, n, ext) ==
    IF pos + n <= Len(t) THEN t ELSE t \o ext

Fresh(t, pos, n) ==
    IF pos + n <= Len(t) THEN {<<>>} ELSE [1..(pos + n - Len(t)) -> Draws]

\* line 44
Seed(r) ==
    /\ sim[r].pc = "seed"
    /\ rng_pos' = SeedRng(rng_pos)
    /\ sim' = [sim EXCEPT ![r].pc = "draw_interarrival"]
    /\ UNCHANGED <<tape, results>>

\* line 45
DrawInterarrival(r) ==
    /\ sim[r].pc = "draw_interarrival"
    /\ LET s == sim[r]
           e == DrawError(s.arrival_rate, s.total_customers)
       IN  IF e # ""
           THEN /\ sim' = [sim EXCEPT ![r] = Raise(s, e)]
                /\ UNCHANGED <<rng_pos, tape>>
           ELSE \E ext \in Fresh(tape, rng_pos, s.total_customers) :
                  /\ tape' = Reveal(tape, rng_pos, s.total_customers, ext)
                  /\ rng_pos' = rng_pos + s.total_customers
                  /\ sim' = [sim EXCEPT ![r] =
                        [s EXCEPT !.pc = "draw_service",
                                  !.interarrival_times =
                                      Exponential(FDiv(Unit, s.arrival_rate), s.total_customers, rng_pos, tape')]]
    /\ UNCHANGED results

\* line 46
DrawService(r) ==
    /\ sim[r].pc = "draw_service"
    /\ LET s == sim[r]
           e == DrawError(s.service_rate, s.total_customers)
       IN  IF e # ""
           THEN /\ sim' = [sim EXCEPT ![r] = Raise(s, e)]
                /\ UNCHANGED <<rng_pos, tape>>
           ELSE \E ext \in Fresh(tape, rng_pos, s.total_customers) :
                  /\ tape' = Reveal(tape, rng_pos, s.total_customers, ext)
                  /\ rng_pos' = rng_pos + s.total_customers
                  /\ sim' = [sim EXCEPT ![r] =
                        [s EXCEPT !.pc = "begin_loop",
                                  !.service_times =
                                      Exponential(FDiv(Unit, s.service_rate), s.total_customers, rng_pos, tape')]]
    /\ UNCHANGED results

\* lines 49-55
BeginLoop(r) ==
    /\ sim[r].pc = "begin_loop"
    /\ sim' = [sim EXCEPT ![r] = BeginLoopStep(sim[r])]
    /\ UNCHANGED <<rng_pos, tape, results>>

\* lines 58-85
ProcessCustomer(r) ==
    /\ sim[r].pc = "loop"
    /\ sim[r].i < sim[r].total_customers
    /\ sim' = [sim EXCEPT ![r] = ProcessCustomerStep(sim[r])]
    /\ UNCHANGED <<rng_pos, tape, results>>

\* lines 88-93
Return(r) ==
    /\ sim[r].pc = "loop"
    /\ sim[r].i >= sim[r].total_customers
    /\ sim' = [sim EXCEPT ![r] = ReturnStep(sim[r])]
    /\ UNCHANGED <<rng_pos, tape, results>>

\* ------------------------------------------------- one call of run_simulation
\* the generator's position when the process has not seeded it
UnseededPos == 1

Init ==
    /\ \E ar \in Rates, sr \in Rates, k \in ServerCounts, n \in CustomerCounts :
          sim = [r \in RunIds |-> IF r = 1 THEN NewSimulator(ar, sr, k, n) ELSE NoSimulator]
    /\ rng_pos = UnseededPos
    /\ tape = <<>>
    /\ results = <<>>

Next ==
    \/ Seed(1)
    \/ DrawInterarrival(1)
    \/ DrawService(1)
    \/ BeginLoop(1)
    \/ ProcessCustomer(1)
    \/ Return(1)

Spec == Init /\ [][Next]_vars


\* ------------------------------------- run_mm1_mm2_simulations: runs in turn
\* the scenario table: arrival rates 0.5 and 1.0, service rate 1.0, 1 or 2 servers
ScenarioArrivalRates == {Unit \div 2, Unit}
ScenarioServiceRates == {Unit}
ScenarioServers == 1..2

\* line 23: total_customers is left at its default by every scenario
DefaultCustomers == SeqCustomers

\* lines 120-125: the next scenario's simulator is constructed
StartScenario ==
    /\ sim[1].pc = "idle"
    /\ Len(results) < MaxRuns
    /\ \E ar \in ScenarioArrivalRates, sr \in ScenarioServiceRates, k \in ScenarioServers :
          sim' = [sim EXCEPT ![1] = NewSimulator(ar, sr, k, DefaultCustomers)]
    /\ UNCHANGED <<rng_pos, tape, results>>

\* lines 126-127: the run's metrics are appended to the results list
AppendResult ==
    /\ sim[1].pc = "done"
    /\ results' = Append(results, [config |-> Config(sim[1]), result |-> sim[1].result[1]])
    /\ sim' = [sim EXCEPT ![1] = NoSimulator]
    /\ UNCHANGED <<rng_pos, tape>>

InitSeq ==
    /\ sim = [r \in RunIds |-> NoSimulator]
    /\ rng_pos \in 0..1
    /\ tape = <<>>
    /\ results = <<>>

NextSeq ==
    \/ StartScenario
    \/ Seed(1)
    \/ DrawInterarrival(1)
    \/ DrawService(1)
    \/ BeginLoop(1)
    \/ ProcessCustomer(1)
    \/ Return(1)
    \/ AppendResult

SpecSeq == InitSeq /\ [][NextSeq]_vars

\* ------------------------------------------ two runs with interleaved steps
InitPar ==
    /\ \E ar1 \in ScenarioArrivalRates, sr1 \in ScenarioServiceRates, k1 \in ScenarioServers, n1 \in 1..ParCustomers,
          ar2 \in ScenarioArrivalRates, sr2 \in ScenarioServiceRates, k2 \in ScenarioServers, n2 \in 1..ParCustomers :
          sim = [r \in RunIds |-> IF r = 1 THEN NewSimulator(ar1, sr1, k1, n1)
                                           ELSE NewSimulator(ar2, sr2, k2, n2)]
    /\ rng_pos = 0
    /\ tape = <<>>
    /\ results = <<>>

NextPar ==
    \E r \in RunIds :
        \/ Seed(r)
        \/ DrawInterarrival(r)
        \/ DrawService(r)
        \/ BeginLoop(r)
        \/ ProcessCustomer(r)
        \/ Return(r)

SpecPar == InitPar /\ [][NextPar]_vars

\* the whole customer loop, lines 58-85
RECURSIVE RunLoop(_)
RunLoop(s) ==
    IF s.pc = "loop" /\ s.i < s.total_customers THEN RunLoop(ProcessCustomerStep(s)) ELSE s

\* run_simulation executed with no other run in the process: lines 44-93
RunAlone(s, t) ==
    LET n == s.total_customers
        drawn == [NewSimulator(s.arrival_rate, s.service_rate, s.servers, n) EXCEPT
                    !.interarrival_times = Exponential(FDiv(Unit, s.arrival_rate), n, SeedRng(0), t),
                    !.service_times = Exponential(FDiv(Unit, s.service_rate), n, SeedRng(0) + n, t)]
    IN  ReturnStep(RunLoop(BeginLoopStep(drawn)))

\* ------------------------------------------------------------------ claims
Finished(s) == s.pc \in {"done", "failed"}
ValidConfig(s) == s.arrival_rate > 0 /\ s.service_rate > 0 /\ s.servers >= 1 /\ s.total_customers >= 1

\* C1: throughout the loop both series have as many entries as customers
\* processed so far, and when a run with a valid config has returned, both
\* series (and the returned queue-length series) have total_customers entries.
C1_SeriesLengths ==
    \A r \in RunIds :
        LET s == sim[r]
        IN  /\ s.pc \in {"loop", "done"} =>
                 /\ Len(s.queue_lengths) = s.i
                 /\ Len(s.response_times) = s.i
                 /\ Len(s.records) = s.i
            /\ (s.pc = "done" /\ ValidConfig(s)) =>
                 /\ Len(s.queue_lengths) = s.total_customers
                 /\ Len(s.response_times) = s.total_customers
                 /\ Len(s.result[1].queue_lengths) = s.total_customers

C1_Witness ==
    /\ sim[1].pc = "done"
    /\ ValidConfig(sim[1])
    /\ sim[1].total_customers >= 2
    /\ \E j \in 1..Len(sim[1].queue_lengths) : sim[1].queue_lengths[j] = 0
    /\ \E j \in 1..Len(sim[1].queue_lengths) : sim[1].queue_lengths[j] = 1

\* C2: every processed customer's response time is at least its own
\* service duration.
C2_ResponseAtLeastService ==
    \A r \in RunIds :
        \A j \in 1..Len(sim[r].records) :
            sim[r].records[j].responseTime >= sim[r].records[j].serviceDuration

\* customers, up to and including customer j, that have arrived by customer
\* j's arrival instant and whose service has not started at that instant
WaitingAtArrival(recs, j) ==
    Cardinality({ c \in 1..j : /\ recs[c].arrivalTime <= recs[j].arrivalTime
                              /\ recs[c].serviceStartTime > recs[j].arrivalTime })

\* C3: the queue length recorded for a customer is the number of customers
\* waiting for service at its arrival instant.
C3_QueueLengthIsWaitingCount ==
    \A r \in RunIds :
        \A j \in 1..Len(sim[r].records) :
            sim[r].records[j].queueLengthAtArrival = WaitingAtArrival(sim[r].records, j)

\* C4: any two runs of the results list that had the same inputs returned
\* the same metrics, whatever ran before or between them.
C4_Deterministic ==
    \A a \in 1..Len(results), b \in 1..Len(results) :
        results[a].config = results[b].config => results[a].result = results[b].result

C4_Witness ==
    /\ Len(results) >= 3
    /\ results[1].config = results[3].config
    /\ results[2].config # results[1].config
    /\ results[2].result # results[1].result
    /\ Len(tape) >= 2
    /\ tape[1] # tape[2]

\* C5: a run whose steps were interleaved with another run's returns what
\* it returns when it is executed alone.
C5_ParallelRunsIsolated ==
    \A r \in RunIds :
        (sim[r].pc = "done" /\ Len(tape) >= 2 * sim[r].total_customers)
            => sim[r].result = RunAlone(sim[r], tape).result

\* C6: a run with fewer than one server, or with empty streams, fails
\* before any customer is processed and returns no result.
C6_EngineRejectsInvalidRun ==
    \A r \in RunIds :
        LET s == sim[r]
        IN  (s.servers < 1 \/ s.total_customers = 0) =>
                /\ s.pc # "done"
                /\ s.result = <<>>
                /\ s.records = <<>>

\* C7: a run with a non-positive rate or a non-positive customer count
\* fails and returns no result.
C7_GeneratorRejectsInvalidParameters ==
    \A r \in RunIds :
        LET s == sim[r]
        IN  (s.arrival_rate <= 0 \/ s.service_rate <= 0 \/ s.total_customers <= 0) =>
                (Finished(s) => (s.pc = "failed" /\ s.error # "" /\ s.result = <<>>))

\* C8: the server chosen for a customer has the minimum next-free-time of
\* the pool as it was when the customer arrived, no lower-indexed server has
\* that minimum, and with one server the chosen server is server 0.
C8_ServerSelection ==
    \A r \in RunIds :
        \A j \in 1..Len(sim[r].records) :
            LET rec == sim[r].records[j]
                c == rec.assignedServer + 1
            IN  /\ c \in 1..Len(rec.pool)
                /\ \A o \in 1..Len(rec.pool) :
                      /\ rec.pool[c] <= rec.pool[o]
                      /\ o < c => rec.pool[o] > rec.pool[c]
                /\ sim[r].servers = 1 => rec.assignedServer = 0

C8_Witness ==
    \E j \in 1..Len(sim[1].records) :
        LET rec == sim[1].records[j]
        IN  /\ rec.assignedServer = 1
            /\ Len(rec.pool) >= 3
            /\ rec.pool[3] = rec.pool[2]

\* C9: with more servers than customers every customer starts service at
\* its arrival time, its response time equals its service duration and its
\* recorded queue length is 0.
C9_MoreServersThanCustomers ==
    \A r \in RunIds :
        sim[r].servers > sim[r].total_customers =>
            \A j \in 1..Len(sim[r].records) :
                LET rec == sim[r].records[j]
                IN  /\ rec.serviceStartTime = rec.arrivalTime
                    /\ rec.responseTime = rec.serviceDuration
                    /\ rec.queueLengthAtArrival = 0

\* C10: the first customer is served immediately (recorded queue length 0,
\* response time equal to its service duration), and a returned run of one
\* customer has average queue length 0 and average response time equal to
\* that customer's service duration.
C10_FirstCustomerImmediate ==
    \A r \in RunIds :
        LET s == sim[r]
        IN  /\ Len(s.records) >= 1 =>
                 /\ s.records[1].queueLengthAtArrival = 0
                 /\ s.records[1].responseTime = s.records[1].serviceDuration
            /\ (s.pc = "done" /\ s.total_customers = 1) =>
                 /\ s.result[1].average_queue_length = <<0>>
                 /\ s.result[1].average_response_time = <<s.service_times[1]>>


\* C11: of two single-server runs in the results list that differ only in
\* the arrival rate (same variates, same service rate and customer count),
\* the run with the higher arrival rate has the greater average response time.
C11_ResponseIncreasesWithLoad ==
    \A a \in 1..Len(results), b \in 1..Len(results) :
        LET ca == results[a].config
            cb == results[b].config
        IN  (/\ ca[3] = 1 /\ cb[3] = 1
             /\ ca[2] = cb[2]
             /\ ca[4] = cb[4]
             /\ ca[1] < cb[1])
            => results[b].result.average_response_time[1] > results[a].result.average_response_time[1]

\* C12: every recorded queue length is at least 0 and the running counter
\* is never negative.
C12_QueueLengthNonNegative ==
    \A r \in RunIds :
        /\ sim[r].queue_length >= 0
        /\ \A j \in 1..Len(sim[r].queue_lengths) : sim[r].queue_lengths[j] >= 0
        /\ \A j \in 1..Len(sim[r].records) : sim[r].records[j].queueLengthAtArrival >= 0

C12_Witness ==
    /\ sim[1].pc = "done"
    /\ Len(sim[1].queue_lengths) >= 2
    /\ sim[1].queue_lengths[Len(sim[1].queue_lengths)] = 0
    /\ \E j \in 1..Len(sim[1].queue_lengths) : sim[1].queue_lengths[j] = 1

\* C13: the returned server_utilization is arrival_rate / (servers * service_rate)
\* rounded to the nearest representable value: with N / D the exact quotient
\* in quanta, no whole number of quanta is nearer to it.  It is determined by
\* the configuration, whatever the simulated trace was.
C13_UtilizationClosedForm ==
    \A r \in RunIds :
        LET s == sim[r]
            N == s.arrival_rate * Unit
            D == s.servers * s.service_rate
            u == s.result[1].server_utilization
        IN  (s.pc = "done" /\ s.arrival_rate > 0 /\ s.service_rate > 0 /\ s.servers >= 1) =>
                /\ 2 * Abs(u * D - N) <= D
                /\ (N % D = 0 => u * D = N)

C13_Witness ==
    /\ sim[1].pc = "done"
    /\ sim[1].servers = 2
    /\ sim[1].arrival_rate = 2 * Unit
    /\ sim[1].service_rate = 2 * Unit
    /\ sim[1].result[1].server_utilization = Unit \div 2
    /\ \E j \in 1..Len(sim[1].queue_lengths) : sim[1].queue_lengths[j] = 1

\* C14: when a run has finished, the process-wide generator is in the state
\* it was in before the call.
C14_NoSideEffects ==
    Finished(sim[1]) => (rng_pos = UnseededPos /\ tape = <<>>)

\* the number of steps a run has left: the statements before the loop, the
\* iterations not yet taken, and the return
Remaining(s) ==
    CASE s.pc = "seed" -> 5 + s.total_customers
      [] s.pc = "draw_interarrival" -> 4 + s.total_customers
      [] s.pc = "draw_service" -> 3 + s.total_customers
      [] s.pc = "begin_loop" -> 2 + s.total_customers
      [] s.pc = "loop" -> 1 + (s.total_customers - s.i)
      [] OTHER -> 0

\* C15: a run with a valid config terminates: it never fails, while it has
\* not returned it has statements left, every step brings it exactly one
\* step nearer to the return (customer i is processed at the i-th iteration,
\* once), and it returns after processing every customer in arrival order.
C15_RunTerminates ==
    /\ [](ValidConfig(sim[1]) =>
            /\ sim[1].pc # "failed"
            /\ sim[1].error = ""
            /\ Remaining(sim[1]) >= 0
            /\ (sim[1].pc = "done") <=> (Remaining(sim[1]) = 0)
            /\ sim[1].i = Len(sim[1].records)
            /\ \A j \in 1..Len(sim[1].records) :
                  /\ sim[1].records[j].arrivalTime = sim[1].arrival_times[j]
                  /\ sim[1].records[j].serviceDuration = sim[1].service_times[j]
            /\ (sim[1].pc = "done") =>
                  (sim[1].i = sim[1].total_customers /\ Len(sim[1].result) = 1))
    /\ [][ValidConfig(sim[1]) => Remaining(sim[1]') = Remaining(sim[1]) - 1]_vars

C15_Witness ==
    /\ sim[1].pc = "done"
    /\ ValidConfig(sim[1])
    /\ sim[1].i = sim[1].total_customers
    /\ sim[1].total_customers >= 3
    /\ sim[1].arrival_times[3] > sim[1].arrival_times[1]

\* C16: the arrival times are the running (float) sums of the interarrival
\* gaps; the gaps are non-negative, so the arrival times are non-negative
\* and non-decreasing.
C16_ArrivalsAreRunningSums ==
    \A r \in RunIds :
        LET s == sim[r]
        IN  s.pc \in {"loop", "done"} =>
                /\ Len(s.arrival_times) = Len(s.interarrival_times)
                /\ \A j \in 1..Len(s.arrival_times) :
                      /\ s.interarrival_times[j] >= 0
                      /\ s.arrival_times[j] = FSum(SubSeq(s.interarrival_times, 1, j))
                      /\ s.arrival_times[j] >= 0
                      /\ j > 1 => s.arrival_times[j - 1] <= s.arrival_times[j]

C16_Witness ==
    /\ sim[1].pc = "loop"
    /\ Len(sim[1].arrival_times) >= 3
    /\ sim[1].interarrival_times[2] > 0
    /\ sim[1].interarrival_times[3] > 0
    /\ sim[1].arrival_times[1] > 0
    /\ sim[1].arrival_times[3] > sim[1].arrival_times[2]

\* C18: for every customer, with F the chosen server's next-free-time before
\* the update: the service start is max(arrival, F), the departure is start
\* plus service duration, the response time is departure minus arrival, and
\* after the customer is processed the chosen server's next-free-time is that
\* departure time.
C18_TimeBookkeeping ==
    \A r \in RunIds :
        LET s == sim[r]
        IN  \A j \in 1..Len(s.records) :
                LET rec == s.records[j]
                    F == rec.pool[rec.assignedServer + 1]
                    after == IF j = Len(s.records) THEN s.departure_times ELSE s.records[j + 1].pool
                IN  /\ rec.serviceStartTime = (IF rec.arrivalTime < F THEN F ELSE rec.arrivalTime)
                    /\ rec.serviceStartTime >= rec.arrivalTime
                    /\ rec.serviceStartTime >= F
                    /\ rec.departureTime = FAdd(rec.serviceStartTime, rec.serviceDuration)
                    /\ rec.responseTime = FSub(rec.departureTime, rec.arrivalTime)
                    /\ s.response_times[j] = rec.responseTime
                    /\ after[rec.assignedServer + 1] = rec.departureTime

C18_Witness ==
    \E j \in 1..Len(sim[1].records) :
        LET rec == sim[1].records[j]
        IN  /\ j < Len(sim[1].records)
            /\ rec.serviceStartTime > rec.arrivalTime
            /\ rec.serviceDuration > 0
            /\ rec.arrivalTime > 0

\* C19: the running counter is 0 at the start of every iteration and at the
\* end of the run; the value recorded for a customer is 1 exactly when the
\* customer arrived strictly before the chosen server's next-free-time and 0
\* otherwise, so it never exceeds 1.
C19_QueueCounterIsProxy ==
    \A r \in RunIds :
        LET s == sim[r]
        IN  /\ s.pc \in {"loop", "done"} => s.queue_length = 0
            /\ \A j \in 1..Len(s.records) :
                  LET rec == s.records[j]
                      F == rec.pool[rec.assignedServer + 1]
                  IN  /\ rec.queueLengthAtArrival = (IF rec.arrivalTime < F THEN 1 ELSE 0)
                      /\ s.queue_lengths[j] = rec.queueLengthAtArrival
                      /\ s.queue_lengths[j] <= 1

C19_Witness ==
    /\ sim[1].pc = "done"
    /\ Len(sim[1].queue_lengths) >= 3
    /\ sim[1].queue_lengths[2] = 1
    /\ sim[1].queue_lengths[3] = 1
    /\ sim[1].queue_lengths[1] = 0

\* C20: a customer's service starts later than its arrival exactly when
\* every server's next-free-time is strictly greater than the arrival time;
\* otherwise (some server free at or before the arrival, equality included)
\* it starts at the arrival time.
C20_WaitsIffAllBusy ==
    \A r \in RunIds :
        \A j \in 1..Len(sim[r].records) :
            LET rec == sim[r].records[j]
                allBusy == \A o \in 1..Len(rec.pool) : rec.pool[o] > rec.arrivalTime
            IN  /\ (rec.serviceStartTime > rec.arrivalTime) <=> allBusy
                /\ ~allBusy => rec.serviceStartTime = rec.arrivalTime

C20_Witness ==
    /\ \E j \in 1..Len(sim[1].records) :
          LET rec == sim[1].records[j]
          IN  /\ Len(rec.pool) >= 2
              /\ rec.serviceStartTime > rec.arrivalTime
    /\ \E j \in 1..Len(sim[1].records) :
          LET rec == sim[1].records[j]
          IN  /\ Len(rec.pool) >= 2
              /\ rec.pool[1] > rec.arrivalTime
              /\ rec.pool[2] = rec.arrivalTime
              /\ rec.serviceStartTime = rec.arrivalTime

\* the pool as it is after the j-th customer has been processed: the pool the
\* next customer finds, or the current pool for the last customer so far
PoolAfter(s, j) ==
    IF j < Len(s.records) THEN s.records[j + 1].pool ELSE s.departure_times

\* C21: processing a customer overwrites the chosen server's next-free-time
\* with the customer's departure time and leaves every other server's
\* next-free-time as it was; from the first customer to the return the pool
\* has exactly servers entries.
C21_OnePoolEntryChanges ==
    \A r \in RunIds :
        LET s == sim[r]
        IN  /\ (s.pc \in {"loop", "done"} /\ s.servers >= 1) =>
                   Len(s.departure_times) = s.servers
            /\ \A j \in 1..Len(s.records) :
                  LET rec == s.records[j]
                      after == PoolAfter(s, j)
                  IN  /\ Len(rec.pool) = s.servers
                      /\ Len(after) = s.servers
                      /\ rec.assignedServer + 1 \in 1..s.servers
                      /\ after[rec.assignedServer + 1] = rec.departureTime
                      /\ \A o \in 1..s.servers :
                            o # rec.assignedServer + 1 => after[o] = rec.pool[o]

C21_Witness ==
    \E j \in 1..Len(sim[1].records) :
        LET rec == sim[1].records[j]
        IN  /\ sim[1].servers >= 2
            /\ rec.departureTime # rec.pool[rec.assignedServer + 1]
            /\ \E o \in 1..sim[1].servers :
                  /\ o # rec.assignedServer + 1
                  /\ rec.pool[o] > 0
                  /\ rec.pool[o] # rec.departureTime
                  /\ PoolAfter(sim[1], j)[o] = rec.pool[o]

\* the smallest next-free-time of a non-empty pool
MinOf(pool) ==
    CHOOSE m \in {pool[o] : o \in 1..Len(pool)} : \A o \in 1..Len(pool) : m <= pool[o]

\* C22: the pool starts as all zeros, no server's next-free-time is smaller
\* after a customer has been processed than it was before, and the minimum
\* next-free-time over the pool does not decrease from customer to customer.
C22_PoolMonotone ==
    \A r \in RunIds :
        LET s == sim[r]
        IN  /\ (s.pc = "loop" /\ s.i = 0) =>
                   \A o \in 1..Len(s.departure_times) : s.departure_times[o] = 0
            /\ \A j \in 1..Len(s.records) :
                  LET rec == s.records[j]
                      after == PoolAfter(s, j)
                  IN  /\ (j = 1 => \A o \in 1..Len(rec.pool) : rec.pool[o] = 0)
                      /\ \A o \in 1..Len(rec.pool) : after[o] >= rec.pool[o]
                      /\ MinOf(after) >= MinOf(rec.pool)

C22_Witness ==
    /\ sim[1].servers >= 2
    /\ \E j \in 2..Len(sim[1].records) :
          LET rec == sim[1].records[j]
          IN  /\ MinOf(rec.pool) > 0
              /\ MinOf(PoolAfter(sim[1], j)) > MinOf(rec.pool)

\* C23: no step of a run changes the simulator's arrival_rate, service_rate,
\* servers or total_customers, so they are the same after the call as before;
\* and no step taken in the customer loop (an iteration or the return)
\* changes the arrival-time or the service-time sequence.
C23_InputsNotMutated ==
    [][ /\ sim'[1].arrival_rate = sim[1].arrival_rate
        /\ sim'[1].service_rate = sim[1].service_rate
        /\ sim'[1].servers = sim[1].servers
        /\ sim'[1].total_customers = sim[1].total_customers
        /\ sim[1].pc = "loop" =>
              /\ sim'[1].arrival_times = sim[1].arrival_times
              /\ sim'[1].service_times = sim[1].service_times
              /\ sim'[1].interarrival_times = sim[1].interarrival_times ]_vars

C23_Witness ==
    /\ sim[1].pc = "done"
    /\ sim[1].total_customers >= 2
    /\ Len(sim[1].records) = sim[1].total_customers
    /\ Len(sim[1].arrival_times) = sim[1].total_customers
    /\ Len(sim[1].service_times) = sim[1].total_customers
    /\ sim[1].arrival_times[2] > sim[1].arrival_times[1]
    /\ sim[1].service_times[1] > 0

\* C24: service is first come, first served: for any number of servers, a
\* customer never starts service before a customer with a smaller index
\* (an earlier arrival) does.
C24_FirstComeFirstServed ==
    \A r \in RunIds :
        \A j \in 1..Len(sim[r].records) :
            \A k \in j..Len(sim[r].records) :
                sim[r].records[j].serviceStartTime <= sim[r].records[k].serviceStartTime

C24_Witness ==
    /\ sim[1].servers >= 2
    /\ Len(sim[1].records) >= 3
    /\ sim[1].records[3].serviceStartTime > sim[1].records[3].arrivalTime
    /\ sim[1].records[3].serviceStartTime > sim[1].records[2].serviceStartTime
    /\ sim[1].records[2].assignedServer # sim[1].records[1].assignedServer

\* the customers in service at instant t: service started and not yet over
InService(recs, t) ==
    { c \in 1..Len(recs) : recs[c].serviceStartTime <= t /\ t < recs[c].departureTime }

\* C25: of two customers assigned to the same server, the later one starts
\* service no earlier than the earlier one departs; and at every instant at
\* which a service starts, at most servers customers are in service.
C25_NoServerServesTwo ==
    \A r \in RunIds :
        LET recs == sim[r].records
        IN  /\ \A j \in 1..Len(recs) : \A k \in (j + 1)..Len(recs) :
                  recs[j].assignedServer = recs[k].assignedServer =>
                      recs[k].serviceStartTime >= recs[j].departureTime
            /\ \A k \in 1..Len(recs) :
                  Cardinality(InService(recs, recs[k].serviceStartTime)) <= sim[r].servers

C25_Witness ==
    LET recs == sim[1].records
    IN  /\ sim[1].servers >= 2
        /\ \E j \in 1..Len(recs) : \E k \in (j + 1)..Len(recs) :
              /\ recs[j].assignedServer = recs[k].assignedServer
              /\ recs[k].serviceStartTime = recs[j].departureTime
              /\ recs[k].serviceStartTime > recs[k].arrivalTime
              /\ recs[k].departureTime > recs[k].serviceStartTime
              /\ Cardinality(InService(recs, recs[k].serviceStartTime)) = sim[1].servers

\* C26: with one server the run is the single-server first-in-first-out
\* queue: the first customer departs at arrival + service, every later one
\* at max(arrival, previous departure) + service, and every response time is
\* departure - arrival (float addition and subtraction).
C26_SingleServerLindley ==
    \A r \in RunIds :
        LET s == sim[r]
        IN  s.servers = 1 =>
                \A j \in 1..Len(s.records) :
                    LET rec == s.records[j]
                        arrival == s.arrival_times[j]
                        service == s.service_times[j]
                        previous == IF j = 1 THEN arrival ELSE s.records[j - 1].departureTime
                        begin == IF arrival >= previous THEN arrival ELSE previous
                    IN  /\ rec.departureTime = FAdd(begin, service)
                        /\ rec.responseTime = FSub(rec.departureTime, arrival)
                        /\ s.response_times[j] = rec.responseTime

C26_Witness ==
    /\ sim[1].servers = 1
    /\ Len(sim[1].records) >= 3
    /\ sim[1].records[2].arrivalTime < sim[1].records[1].departureTime
    /\ sim[1].records[3].arrivalTime > sim[1].records[2].departureTime
    /\ sim[1].records[3].serviceDuration > 0

====
